---------------------------- MODULE Spec2Model ----------------------------
(***************************************************************************)
(* Model of the bungolsa team-making app (Vite + React + TypeScript).      *)
(*                                                                         *)
(* The repository holds three revisions of App.tsx:                        *)
(*   "App"     src/src/App.tsx       roster typed as text, parsePlayers    *)
(*   "part000" src/unnamed/part_000  roster edited by addPlayer/remove     *)
(*   "part001" src/unnamed/part_001  the same plus gender, and             *)
(*                                   makeRandomTeamsWithGender             *)
(*                                                                         *)
(* SpecPartition applies the partition functions to bounded inputs.        *)
(* SpecUI is the state machine of the React component's handlers.          *)
(* SpecCore applies generateTeamNames and calcAverageHandicap to bounded   *)
(* inputs.                                                                 *)
(* SpecCopy is the copy handler under a displayed partition.               *)
(***************************************************************************)
EXTENDS Integers, Sequences, FiniteSets, TLC

VARIABLES
    \* ---- one call of a partition function (SpecPartition) ----
    strategy,      \* which function is called
    inPlayers,     \* the array passed as players: its contents
    inTeamSize,    \* the teamSize argument
    pc,            \* "call" before the call, "done" after it, "idle" in SpecUI
    locals,        \* the function's local arrays when it returned
    result,        \* [status, teams]: what the call produced
    \* ---- React state of the component (SpecUI) ----
    variant,       \* which revision of App.tsx runs
    playersInput,  \* useState<string>, revision "App" only
    players,       \* useState<Player[]>, revisions "part000" and "part001"
    teamSize,      \* useState<number>
    mode,          \* useState<Mode>
    teams,         \* useState<Team[] | null>: Null or Some(partition)
    teamNames,     \* useState<string[]>
    error,         \* useState<string | null>
    copyMessage,   \* useState<string | null>
    handlerEnd,    \* how the last handler ended: returns, throws or hangs
    issued,        \* history: every id addPlayer has ever assigned
    \* ---- one call of generateTeamNames or calcAverageHandicap (SpecCore) ----
    fn,            \* which function is called
    arg,           \* its argument
    ret,           \* None before the call, Some(returned value) after it
    \* ---- handleCopyResults and the clipboard (SpecCopy) ----
    clipboard,     \* the text on the system clipboard, Null before any write
    inFlight,      \* the texts handed to writeText whose promise is pending
    timers,        \* the number of pending setTimeout(..., 5000) callbacks
    written        \* history: what each handleCopyResults built, in order

partVars == <<strategy, inPlayers, inTeamSize, pc, locals, result>>
uiVars == <<variant, playersInput, players, teamSize, mode, teams,
            teamNames, error, copyMessage, handlerEnd, issued>>
coreVars == <<fn, arg, ret>>
copyVars == <<clipboard, inFlight, timers, written>>
vars == <<strategy, inPlayers, inTeamSize, pc, locals, result,
          variant, playersInput, players, teamSize, mode, teams,
          teamNames, error, copyMessage, handlerEnd, issued,
          fn, arg, ret, clipboard, inFlight, timers, written>>

---------------------------------------------------------------------------
(* Bounds of the model.                                                    *)

\* Longest roster handed to a partition function in SpecPartition, and
\* largest group handed to calcAverageHandicap in SpecCore.
MaxPlayers == 4
\* Largest teamSize handed to a partition function in SpecPartition.
MaxTeamSize == 4
\* Largest id addPlayer may assign in SpecUI (caps the id counter).
MaxId == 2

---------------------------------------------------------------------------
(* Values.                                                                 *)

\* An optional value (`handicap?: number`, `T | null`) is the empty sequence
\* when absent and a one-element sequence when present.
None == <<>>
Some(x) == <<x>>

\* type Gender = "M" | "F" | "N" (part_001); the Player type of the other two
\* revisions has no gender field, which the model holds at NoGender.
Gender == {"M", "F", "N"}
NoGender == "-"

\* type Player = { id, name, handicap?, gender }
Player(id, name, handicap, gender) ==
    [id |-> id, name |-> name, handicap |-> handicap, gender |-> gender]

\* The fallback of `a.handicap ?? 999` in makeBalancedTeams' comparator.
MissingHandicap == 999

Min(a, b) == IF a < b THEN a ELSE b

---------------------------------------------------------------------------
(* JavaScript numbers, as far as Math.ceil(length / teamSize) produces     *)
(* them: a finite integer, NaN (0 / 0) or +Infinity (n / 0, n > 0).        *)

Fin(v) == [kind |-> "finite", val |-> v]
NaN == [kind |-> "NaN", val |-> 0]
PosInfinity == [kind |-> "Infinity", val |-> 0]

\* Math.ceil(n / d) for an array length n >= 0 and an integer d.  A negative
\* zero (n < -d) is the finite 0: it is falsy and a length of 0 like +0.
MathCeilDiv(n, d) ==
    IF d = 0 THEN (IF n = 0 THEN NaN ELSE PosInfinity)
    ELSE IF d > 0 THEN Fin((n + d - 1) \div d)
    ELSE Fin(0 - (n \div (0 - d)))

\* `x || 1`: 0 and NaN are falsy.
OrOne(x) ==
    IF x.kind = "NaN" \/ (x.kind = "finite" /\ x.val = 0) THEN Fin(1) ELSE x

\* The length Array.from({ length: x }) gives its result (ToLength): NaN and
\* negative numbers give 0.  +Infinity is not a valid array length: the call
\* throws a RangeError, which the callers test before using this.
ArrayFromLength(x) ==
    IF x.kind = "finite" /\ x.val > 0 THEN x.val ELSE 0

\* How a call ends.
Returns(t) == [status |-> "returns", teams |-> t]
Throws == [status |-> "throws", teams |-> <<>>]
Hangs == [status |-> "hangs", teams |-> <<>>]

---------------------------------------------------------------------------
(* Array.prototype.sort with a comparator (a, b) => a.k - b.k: ascending   *)
(* by key and stable (ECMAScript 2019), so elements with equal keys keep   *)
(* their order.  The elements are records with a key field k.              *)

\* A faulty insertion: x goes before the elements whose key equals x.k.
RECURSIVE InsertUnstable(_, _)
InsertUnstable(sorted, x) ==
    IF sorted = <<>> THEN <<x>>
    ELSE IF Head(sorted).k < x.k
         THEN <<Head(sorted)>> \o InsertUnstable(Tail(sorted), x)
         ELSE <<x>> \o sorted

\* x goes after every element whose key is <= x.k.
RECURSIVE Insert(_, _)
Insert(sorted, x) ==
    IF sorted = <<>> THEN <<x>>
    ELSE IF Head(sorted).k <= x.k
         THEN <<Head(sorted)>> \o Insert(Tail(sorted), x)
         ELSE <<x>> \o sorted

RECURSIVE ArraySortFrom(_, _, _)
ArraySortFrom(arr, i, acc) ==
    IF i > Len(arr) THEN acc ELSE ArraySortFrom(arr, i + 1, Insert(acc, arr[i]))

ArraySort(arr) == ArraySortFrom(arr, 1, <<>>)

\* A faulty slice: the element before `end` is left out.
SliceShort(arr, start, end) == SubSeq(arr, start + 1, Min(end, Len(arr)) - 1)

\* arr.slice(start, end) for 0 <= start and start <= end (0-based, end
\* exclusive, clipped to the length).
Slice(arr, start, end) == SubSeq(arr, start + 1, Min(end, Len(arr)))

\* arr.filter(p => p.gender === g)
RECURSIVE FilterGender(_, _)
FilterGender(arr, g) ==
    IF arr = <<>> THEN <<>>
    ELSE IF Head(arr).gender = g
         THEN <<Head(arr)>> \o FilterGender(Tail(arr), g)
         ELSE FilterGender(Tail(arr), g)

---------------------------------------------------------------------------
(* shuffle: every element gets a key from Math.random(), the array is      *)
(* sorted by key, the keys are dropped.  r[i] is the key drawn for arr[i]. *)

shuffle(arr, r) ==
    LET keyed == [i \in 1..Len(arr) |-> [v |-> arr[i], k |-> r[i]]]
        sorted == ArraySort(keyed)
    IN  [i \in 1..Len(arr) |-> sorted[i].v]

\* The draws of Math.random() for an array of n elements, as ranks 1..n.
\* Two equal keys leave the two elements in their order, which is also the
\* result of some draw without ties, so the draws without ties give every
\* result shuffle can give.
KeyDrawsTable ==
    [n \in 0..MaxPlayers |->
        {r \in [1..n -> 1..n] : \A i, j \in 1..n : i # j => r[i] # r[j]}]

KeyDraws(n) == KeyDrawsTable[n]

---------------------------------------------------------------------------
(* makeRandomTeams (App.tsx 65-72, part_000 43-50).                        *)

\* A faulty loop: `i <= shuffled.length` pushes one more, empty, slice when
\* the length is a multiple of teamSize.
RECURSIVE RandomLoopInclusive(_, _, _, _)
RandomLoopInclusive(shuffled, size, i, acc) ==
    IF i <= Len(shuffled)
    THEN RandomLoopInclusive(shuffled, size, i + size,
                             Append(acc, Slice(shuffled, i, i + size)))
    ELSE acc

\* for (let i = 0; i < shuffled.length; i += teamSize)
\*     teams.push(shuffled.slice(i, i + teamSize))
RECURSIVE RandomLoop(_, _, _, _)
RandomLoop(shuffled, size, i, acc) ==
    IF i < Len(shuffled)
    THEN RandomLoop(shuffled, size, i + size,
                    Append(acc, Slice(shuffled, i, i + size)))
    ELSE acc

\* With teamSize <= 0 the loop variable never passes shuffled.length.
makeRandomTeams(ps, size, r) ==
    LET shuffled == shuffle(ps, r)
    IN  IF size <= 0 /\ Len(shuffled) > 0
        THEN Hangs
        ELSE Returns(RandomLoop(shuffled, size, 0, <<>>))

---------------------------------------------------------------------------
(* makeBalancedTeams (App.tsx 74-101, part_000 52-79, part_001 73-100).    *)

\* [...players].sort((a, b) => (a.handicap ?? 999) - (b.handicap ?? 999))
HandicapKey(p) == IF p.handicap = None THEN MissingHandicap ELSE p.handicap[1]

sortByHandicap(ps) ==
    LET keyed == [i \in 1..Len(ps) |-> [v |-> ps[i], k |-> HandicapKey(ps[i])]]
        sorted == ArraySort(keyed)
    IN  [i \in 1..Len(ps) |-> sorted[i].v]

\* Math.ceil(players.length / teamSize) (App.tsx 81, part_000 59)
numTeamsPlain(ps, size) == MathCeilDiv(Len(ps), size)

\* Math.ceil(players.length / teamSize) || 1 (part_001 53 and 80)
numTeamsOrOne(ps, size) == OrOne(MathCeilDiv(Len(ps), size))

\* One for-loop of the snake: teams[t].push(sorted[index++]) from t in steps
\* of step while t is in 0..n-1 and index < sorted.length (t, index 0-based).
RECURSIVE SnakeFor(_, _, _, _, _, _)
SnakeFor(ts, sorted, index, t, step, n) ==
    IF t >= 0 /\ t < n /\ index < Len(sorted)
    THEN SnakeFor([ts EXCEPT ![t + 1] = Append(@, sorted[index + 1])],
                  sorted, index + 1, t + step, step, n)
    ELSE [teams |-> ts, index |-> index]

\* A faulty step: the direction is never reversed.
NextDirectionStuck(direction) == direction

\* direction *= -1
NextDirection(direction) == 0 - direction

RECURSIVE SnakeWhile(_, _, _, _, _)
SnakeWhile(ts, sorted, index, direction, n) ==
    IF index < Len(sorted)
    THEN LET pass == IF direction = 1
                     THEN SnakeFor(ts, sorted, index, 0, 1, n)
                     ELSE SnakeFor(ts, sorted, index, n - 1, -1, n)
         IN  SnakeWhile(pass.teams, sorted, pass.index,
                        NextDirection(direction), n)
    ELSE ts

\* The body after numTeams is computed.  Array.from throws on +Infinity;
\* with no team to push to (numTeams <= 0 or NaN) and a player to place,
\* neither for-loop runs and the while loop never ends.
SnakeFill(ps, numTeams) ==
    LET sorted == sortByHandicap(ps)
        n == ArrayFromLength(numTeams)
    IN  IF numTeams.kind = "Infinity" THEN Throws
        ELSE IF n = 0 /\ Len(sorted) > 0 THEN Hangs
        ELSE Returns(SnakeWhile([t \in 1..n |-> <<>>], sorted, 0, 1, n))

\* App.tsx and part_000
makeBalancedTeams(ps, size) == SnakeFill(ps, numTeamsPlain(ps, size))

\* part_001
makeBalancedTeams001(ps, size) == SnakeFill(ps, numTeamsOrOne(ps, size))

---------------------------------------------------------------------------
(* makeRandomTeamsWithGender (part_001 47-70).                             *)

\* A faulty step: the cursor stops at the last team instead of wrapping.
NextIdxNoWrap(idx, n) == Min(idx + 1, n - 1)

\* idx = (idx + 1) % numTeams
NextIdx(idx, n) == (idx + 1) % n

\* assignGroup: let idx = 0; while (group.length) { teams[idx].push(
\* group.shift()); idx = (idx + 1) % numTeams }, for numTeams >= 1.
RECURSIVE AssignLoop(_, _, _, _)
AssignLoop(ts, group, idx, n) ==
    IF group = <<>> THEN ts
    ELSE AssignLoop([ts EXCEPT ![idx + 1] = Append(@, Head(group))],
                    Tail(group), NextIdx(idx, n), n)

assignGroup(ts, group, n) == AssignLoop(ts, group, 0, n)

\* Array.from throws on +Infinity; with numTeams < 0 the teams array is empty
\* and teams[0].push throws a TypeError for the first player assigned.
makeRandomTeamsWithGender(ps, size, rM, rF, rN) ==
    LET males == shuffle(FilterGender(ps, "M"), rM)
        females == shuffle(FilterGender(ps, "F"), rF)
        neutral == shuffle(FilterGender(ps, "N"), rN)
        numTeams == numTeamsOrOne(ps, size)
        n == ArrayFromLength(numTeams)
        empty == [t \in 1..n |-> <<>>]
    IN  IF numTeams.kind = "Infinity" THEN Throws
        ELSE IF n = 0 /\ Len(males) + Len(females) + Len(neutral) > 0
             THEN Throws
        ELSE Returns(assignGroup(assignGroup(assignGroup(empty, males, n),
                                             females, n), neutral, n))

---------------------------------------------------------------------------
(* The arrays a partition function works on.  A JavaScript array is an     *)
(* object: a variable holds a reference, and sort and shift change the     *)
(* object in place.  A store has env, from variable names to references,   *)
(* and mem, from references to the arrays' contents.                       *)

\* On entry: the parameter `players` refers to the caller's array.
StoreOnCall(ps) == [env |-> ("players" :> 1), mem |-> (1 :> ps)]

\* `name` is bound to a new array holding `contents`.
NewArray(st, name, contents) ==
    LET ref == Cardinality(DOMAIN st.mem) + 1
    IN  [env |-> (name :> ref) @@ st.env, mem |-> (ref :> contents) @@ st.mem]

ArrayOf(st, name) == st.mem[st.env[name]]

\* A faulty copy: `name` is bound to the array of `src` itself.
SpreadIntoAlias(st, name, src) ==
    [env |-> (name :> st.env[src]) @@ st.env, mem |-> st.mem]

\* const name = [...src]
SpreadInto(st, name, src) == NewArray(st, name, ArrayOf(st, src))

\* name.sort((a, b) => (a.handicap ?? 999) - (b.handicap ?? 999)), in place
SortInPlace(st, name) ==
    [st EXCEPT !.mem[st.env[name]] = sortByHandicap(ArrayOf(st, name))]

\* const name = shuffle(src): map makes a new array, which is sorted in
\* place and mapped again.
ShuffleInto(st, name, src, r) == NewArray(st, name, shuffle(ArrayOf(st, src), r))

\* const name = shuffle(src.filter((p) => p.gender === g))
FilterShuffleInto(st, name, src, g, r) ==
    NewArray(st, name, shuffle(FilterGender(ArrayOf(st, src), g), r))

\* while (group.length) { group.shift() ... }: the array is left empty.
ShiftAll(st, name) == [st EXCEPT !.mem[st.env[name]] = <<>>]

\* The arrays when makeRandomTeams returns.
StoreOfRandom(ps, r) == ShuffleInto(StoreOnCall(ps), "shuffled", "players", r)

\* The arrays when makeBalancedTeams returns.
StoreOfBalanced(ps) ==
    SortInPlace(SpreadInto(StoreOnCall(ps), "sorted", "players"), "sorted")

\* The arrays when makeRandomTeamsWithGender returns.
StoreOfGender(ps, rM, rF, rN) ==
    LET st1 == FilterShuffleInto(StoreOnCall(ps), "males", "players", "M", rM)
        st2 == FilterShuffleInto(st1, "females", "players", "F", rF)
        st3 == FilterShuffleInto(st2, "neutral", "players", "N", rN)
    IN  ShiftAll(ShiftAll(ShiftAll(st3, "males"), "females"), "neutral")

---------------------------------------------------------------------------
(* Text typed into the form.  A string is one of a small vocabulary; trim  *)
(* and Number are given on that vocabulary.                                *)

\* s.trim()
Trim(s) ==
    CASE s = " " -> ""
      [] s = " kim " -> "kim"
      [] OTHER -> s

\* The strings of the vocabulary that Number() turns into a number, with the
\* number; Number() of every other non-blank string of it is NaN.
Numerals ==
    {<<"18", 18>>, <<"25", 25>>, <<"10", 10>>, <<"15", 15>>, <<"22", 22>>,
     <<"7", 7>>, <<"-3", -3>>, <<"1e1", 10>>}

IsNumeral(s) == \E n \in Numerals : n[1] = s

NumberOf(s) == (CHOOSE n \in Numerals : n[1] = s)[2]

\* /^-?\d+$/.test(s): the strings of the vocabulary that are an optional
\* minus sign and digits.
IsIntegerLiteral(s) == s \in {"18", "25", "10", "15", "22", "7", "-3"}

---------------------------------------------------------------------------
(* parsePlayers (App.tsx 43-63).  The text is the sequence of its lines, a *)
(* line the sequence of its comma-separated pieces; "" is one empty line.  *)

\* l.trim().length > 0: a line is blank when it has no comma and only
\* white space.
IsBlankLine(line) == Len(line) = 1 /\ Trim(line[1]) = ""

RECURSIVE NonBlankLines(_)
NonBlankLines(text) ==
    IF text = <<>> THEN <<>>
    ELSE IF IsBlankLine(Head(text)) THEN NonBlankLines(Tail(text))
         ELSE <<Head(text)>> \o NonBlankLines(Tail(text))

\* handicapRaw && !Number.isNaN(Number(handicapRaw)) ? Number(handicapRaw)
\*                                                    : undefined
ParseHandicapApp(line) ==
    LET raw == IF Len(line) >= 2 THEN Trim(line[2]) ELSE ""
    IN  IF raw # "" /\ IsNumeral(raw) THEN Some(NumberOf(raw)) ELSE None

parsePlayers(text) ==
    LET lines == NonBlankLines(text)
    IN  [i \in 1..Len(lines) |->
            LET nameRaw == Trim(lines[i][1])
            IN  Player(i,
                       IF nameRaw # "" THEN nameRaw ELSE "player" \o ToString(i),
                       ParseHandicapApp(lines[i]),
                       NoGender)]

---------------------------------------------------------------------------
(* generateTeamNames (App.tsx 14-25 and 34-41).                            *)

TEAM_NAME_PRESETS ==
    <<"eagle", "birdie", "albatross", "draw", "fade", "long-iron",
      "bunker-escape", "tee-shot", "on-green", "one-on">>

\* A faulty generateTeamNames: the fallback label carries the 0-based index.
generateTeamNamesZeroBased(count, r) ==
    LET shuffled == shuffle(TEAM_NAME_PRESETS, r)
    IN  [i \in 1..count |->
            IF i <= Len(shuffled) THEN shuffled[i]
            ELSE "room/team " \o ToString(i - 1)]

\* names.push(shuffled[i] || `room/team ${i + 1}`) for i = 0 .. count-1
generateTeamNames(count, r) ==
    LET shuffled == shuffle(TEAM_NAME_PRESETS, r)
    IN  [i \in 1..count |->
            IF i <= Len(shuffled) THEN shuffled[i]
            ELSE "room/team " \o ToString(i)]

---------------------------------------------------------------------------
(* calcAverageHandicap (App.tsx 103-109, part_000 81-87, part_001 102-108). *)
(* The quotient of two integers is held exactly, as a fraction in lowest   *)
(* terms with a positive denominator.                                      *)

\* A faulty filter: a truthiness test, which drops a handicap of 0.
PresentHandicapsTruthy(team) ==
    SelectSeq([i \in DOMAIN team |-> team[i].handicap],
              LAMBDA h : h # None /\ h[1] # 0)

\* team.map((p) => p.handicap).filter((h) => typeof h === "number")
PresentHandicaps(team) ==
    SelectSeq([i \in DOMAIN team |-> team[i].handicap], LAMBDA h : h # None)

\* hs.reduce((a, b) => a + b, 0) over the present handicaps
RECURSIVE SumHandicaps(_)
SumHandicaps(hs) ==
    IF hs = <<>> THEN 0 ELSE Head(hs)[1] + SumHandicaps(Tail(hs))

Abs(x) == IF x < 0 THEN 0 - x ELSE x

RECURSIVE Gcd(_, _)
Gcd(a, b) == IF b = 0 THEN a ELSE Gcd(b, a % b)

\* n / d for integers n and d > 0
Quotient(n, d) ==
    LET g == Gcd(Abs(n), d)
    IN  [num |-> n \div g, den |-> d \div g]

\* if (hs.length === 0) return null; return sum / hs.length
calcAverageHandicap(team) ==
    LET hs == PresentHandicaps(team)
    IN  IF Len(hs) = 0 THEN None
        ELSE Some(Quotient(SumHandicaps(hs), Len(hs)))

---------------------------------------------------------------------------
(* The React component after construction (the useState initial values).   *)

Null == None

DefaultInput ==
    << <<"kim", "18">>, <<"park", "25">>, <<"lee", "10">>,
       <<"jung", "15">>, <<"han", "22">> >>

Variants == {"App", "part000", "part001"}

UIInit(v) ==
    /\ variant = v
    /\ playersInput = IF v = "App" THEN DefaultInput ELSE <<>>
    /\ players = <<>>
    /\ teamSize = 3
    /\ mode = "random"
    /\ teams = Null
    /\ teamNames = <<>>
    /\ error = Null
    /\ copyMessage = Null
    /\ handlerEnd = "returns"
    /\ issued = {}

\* No call of SpecCore is under way.
CoreIdle ==
    /\ fn = "none"
    /\ arg = <<>>
    /\ ret = None

\* Nothing has been copied.
CopyIdle ==
    /\ clipboard = None
    /\ inFlight = <<>>
    /\ timers = 0
    /\ written = <<>>

---------------------------------------------------------------------------
(* The report of handleCopyResults (App.tsx 163-186, part_000 175-198,     *)
(* part_001 183-213).  A line is held by its parts and rendered to the     *)
(* string the code pushes; the Korean words are romanized.                 *)

RECURSIVE SumLengths(_)
SumLengths(ts) ==
    IF ts = <<>> THEN 0 ELSE Len(Head(ts)) + SumLengths(Tail(ts))

\* A faulty total: the length of the roster when the button is pressed.
totalPlayersOfRoster(ts) ==
    Len(IF variant = "App" THEN parsePlayers(playersInput) ELSE players)

\* teams?.reduce((acc, team) => acc + team.length, 0) ?? 0
totalPlayers(ts) == IF ts = Null THEN 0 ELSE SumLengths(ts[1])

Line(kind, name, avg, members, total, count) ==
    [kind |-> kind, name |-> name, avg |-> avg, members |-> members,
     total |-> total, count |-> count]

BlankLine == Line("blank", "", None, <<>>, 0, 0)

\* p.gender === "M" ? "nam" : p.gender === "F" ? "yeo" : "gita"
GenderLabel(g) ==
    CASE g = "M" -> "nam"
      [] g = "F" -> "yeo"
      [] OTHER -> "gita"

\* teamNames[idx] || `room/team ${idx + 1}` in App.tsx and part_000;
\* teamNames[idx] in part_001, where a missing name prints as "undefined".
GroupName(v, names, k) ==
    IF k <= Len(names) /\ names[k] # "" THEN names[k]
    ELSE IF v # "part001" THEN "room/team " \o ToString(k)
    ELSE IF k <= Len(names) THEN "" ELSE "undefined"

\* What the member line shows of a player: part_001 adds the gender label.
MemberEntry(v, p) ==
    [name |-> p.name,
     label |-> IF v = "part001" THEN Some(GenderLabel(p.gender)) ELSE None,
     handicap |-> p.handicap]

\* The three lines pushed for one team by the forEach callback.
GroupLines(v, team, name) ==
    << Line("header", name, calcAverageHandicap(team), <<>>, 0, 0),
       Line("members", "", None,
            [i \in DOMAIN team |-> MemberEntry(v, team[i])], 0, 0),
       BlankLine >>

\* teams.forEach((team, idx) => ...), from the 1-based position k on
RECURSIVE ForEachTeam(_, _, _, _)
ForEachTeam(v, ts, names, k) ==
    IF k > Len(ts) THEN <<>>
    ELSE GroupLines(v, ts[k], GroupName(v, names, k))
           \o ForEachTeam(v, ts, names, k + 1)

\* The array `lines` when the forEach is over, for displayed teams ts
\* (not null).
ReportLines(v, ts, names) ==
    << Line("title", "", None, <<>>, 0, 0),
       Line("summary", "", None, <<>>, totalPlayers(ts), Len(ts[1])),
       BlankLine >>
      \o ForEachTeam(v, ts[1], names, 1)

\* avg.toFixed(1): the nearest tenth, the larger one (in magnitude) on a
\* tie, the sign first.  Among the quotients of an integer by 1..7 only
\* the odd quarters lie on a tie, and those are exact as doubles.
ToFixed1(q) ==
    LET tenths == (20 * Abs(q.num) + q.den) \div (2 * q.den)
    IN  (IF q.num < 0 THEN "-" ELSE "")
          \o ToString(tenths \div 10) \o "." \o ToString(tenths % 10)

\* arr.join(sep)
RECURSIVE Join(_, _)
Join(arr, sep) ==
    IF arr = <<>> THEN ""
    ELSE IF Len(arr) = 1 THEN arr[1]
    ELSE arr[1] \o sep \o Join(Tail(arr), sep)

ReportTitle(v) ==
    CASE v = "App" -> "[bungolsa team result]"
      [] v = "part000" -> "[bungolsa team fairy result]"
      [] OTHER -> "[golf bungolsa team fairy result]"

\* `${p.name}(HCP ${p.handicap})`, `${p.name}[${genderLabel}](HCP ...)`
RenderMember(m) ==
    m.name
      \o (IF m.label # None THEN "[" \o m.label[1] \o "]" ELSE "")
      \o (IF m.handicap # None
          THEN "(HCP " \o ToString(m.handicap[1]) \o ")" ELSE "")

\* The string pushed for a line.
RenderLine(v, l) ==
    CASE l.kind = "title" -> ReportTitle(v)
      [] l.kind = "summary" ->
            "total " \o ToString(l.total) \o ", "
              \o ToString(l.count) \o " rooms/teams"
      [] l.kind = "header" ->
            "# " \o l.name
              \o (IF l.avg # None
                  THEN " (avg HCP " \o ToFixed1(l.avg[1]) \o ")" ELSE "")
      [] l.kind = "members" ->
            Join([i \in DOMAIN l.members |-> RenderMember(l.members[i])], ", ")
      [] OTHER -> ""

\* lines.join("\n")
ReportText(v, lines) ==
    Join([i \in DOMAIN lines |-> RenderLine(v, lines[i])], "\n")

---------------------------------------------------------------------------
(* SpecPartition: one call of one partition function on a bounded input.   *)

Names == <<"p1", "p2", "p3", "p4", "p5", "p6", "p7", "p8">>

\* The rosters of n players with ids 1..n in order, handicaps from H and
\* genders from G.
RostersOf(n, H, G) ==
    {[i \in 1..n |-> Player(i, Names[i], h[i], g[i])] :
        h \in [1..n -> H], g \in [1..n -> G]}

\* The roster of the handicap-balanced example: ratings 1..6 in order.
ExampleRoster == [i \in 1..6 |-> Player(i, Names[i], Some(i), NoGender)]

Strategies == {"random", "gender", "balanced", "balanced001"}

\* The fields a function never reads are held at one value; the fields it
\* reads range over unrated, negative, ordinary and above-999 handicaps, and
\* over the three genders.
RatedAndUnrated == {None, Some(-2), Some(7), Some(1000)}

Rosters(s) ==
    CASE s = "random" ->
            UNION {RostersOf(n, {None, Some(7)}, {NoGender}) : n \in 0..MaxPlayers}
      [] s = "gender" ->
            UNION {RostersOf(n, {None}, Gender) : n \in 0..MaxPlayers}
      [] s = "balanced" ->
            UNION {RostersOf(n, RatedAndUnrated, {NoGender}) : n \in 0..MaxPlayers}
                \cup {ExampleRoster}
      [] s = "balanced001" ->
            UNION {RostersOf(n, RatedAndUnrated, {"M"}) : n \in 0..MaxPlayers}

NoLocals == [order |-> <<>>, buckets |-> <<>>, numTeams |-> Fin(0)]

PartInit ==
    /\ strategy \in Strategies
    /\ inPlayers \in Rosters(strategy)
    /\ inTeamSize \in 1..MaxTeamSize
    /\ pc = "call"
    /\ locals = NoLocals
    /\ result = Returns(<<>>)
    /\ UIInit("App")
    /\ CoreIdle
    /\ CopyIdle

CallMakeRandomTeams ==
    /\ pc = "call" /\ strategy = "random"
    /\ \E r \in KeyDraws(Len(inPlayers)) :
          /\ result' = makeRandomTeams(inPlayers, inTeamSize, r)
          /\ locals' = [NoLocals EXCEPT !.order = shuffle(inPlayers, r)]
          /\ inPlayers' = ArrayOf(StoreOfRandom(inPlayers, r), "players")
    /\ pc' = "done"
    /\ UNCHANGED <<strategy, inTeamSize>>
    /\ UNCHANGED uiVars
    /\ UNCHANGED coreVars
    /\ UNCHANGED copyVars

CallMakeRandomTeamsWithGender ==
    /\ pc = "call" /\ strategy = "gender"
    /\ \E rM \in KeyDraws(Len(FilterGender(inPlayers, "M"))),
          rF \in KeyDraws(Len(FilterGender(inPlayers, "F"))),
          rN \in KeyDraws(Len(FilterGender(inPlayers, "N"))) :
          /\ result' = makeRandomTeamsWithGender(inPlayers, inTeamSize, rM, rF, rN)
          /\ locals' = [NoLocals EXCEPT
                          !.buckets = <<shuffle(FilterGender(inPlayers, "M"), rM),
                                        shuffle(FilterGender(inPlayers, "F"), rF),
                                        shuffle(FilterGender(inPlayers, "N"), rN)>>,
                          !.numTeams = numTeamsOrOne(inPlayers, inTeamSize)]
          /\ inPlayers' = ArrayOf(StoreOfGender(inPlayers, rM, rF, rN), "players")
    /\ pc' = "done"
    /\ UNCHANGED <<strategy, inTeamSize>>
    /\ UNCHANGED uiVars
    /\ UNCHANGED coreVars
    /\ UNCHANGED copyVars

CallMakeBalancedTeams ==
    /\ pc = "call" /\ strategy = "balanced"
    /\ result' = makeBalancedTeams(inPlayers, inTeamSize)
    /\ locals' = [NoLocals EXCEPT !.order = sortByHandicap(inPlayers),
                                  !.numTeams = numTeamsPlain(inPlayers, inTeamSize)]
    /\ inPlayers' = ArrayOf(StoreOfBalanced(inPlayers), "players")
    /\ pc' = "done"
    /\ UNCHANGED <<strategy, inTeamSize>>
    /\ UNCHANGED uiVars
    /\ UNCHANGED coreVars
    /\ UNCHANGED copyVars

CallMakeBalancedTeams001 ==
    /\ pc = "call" /\ strategy = "balanced001"
    /\ result' = makeBalancedTeams001(inPlayers, inTeamSize)
    /\ locals' = [NoLocals EXCEPT !.order = sortByHandicap(inPlayers),
                                  !.numTeams = numTeamsOrOne(inPlayers, inTeamSize)]
    /\ inPlayers' = ArrayOf(StoreOfBalanced(inPlayers), "players")
    /\ pc' = "done"
    /\ UNCHANGED <<strategy, inTeamSize>>
    /\ UNCHANGED uiVars
    /\ UNCHANGED coreVars
    /\ UNCHANGED copyVars

PartNext ==
    \/ CallMakeRandomTeams
    \/ CallMakeRandomTeamsWithGender
    \/ CallMakeBalancedTeams
    \/ CallMakeBalancedTeams001

SpecPartition == PartInit /\ [][PartNext]_vars

---------------------------------------------------------------------------
(* Properties of the partition functions (SpecPartition).                  *)

RECURSIVE Flatten(_)
Flatten(ts) == IF ts = <<>> THEN <<>> ELSE Head(ts) \o Flatten(Tail(ts))

Max(a, b) == IF a > b THEN a ELSE b

\* ceil(n / s) for s >= 1
CeilDiv(n, s) == (n + s - 1) \div s

Returned == pc = "done" /\ result.status = "returns"

GroupSizes == {Len(result.teams[t]) : t \in DOMAIN result.teams}

\* The elements of b at the 0-based positions j with j mod g = k, in order.
RECURSIVE EveryGth(_, _, _, _)
EveryGth(b, j, k, g) ==
    IF j >= Len(b) THEN <<>>
    ELSE IF j % g = k THEN <<b[j + 1]>> \o EveryGth(b, j + 1, k, g)
         ELSE EveryGth(b, j + 1, k, g)

\* s holds exactly the elements of t, each as often as t does.
IsPermutationOf(s, t) ==
    /\ Len(s) = Len(t)
    /\ \A i \in DOMAIN t :
          Cardinality({j \in DOMAIN s : s[j] = t[i]})
            = Cardinality({j \in DOMAIN t : t[j] = t[i]})

\* C1: for a roster with distinct ids and groupSize >= 1, every strategy
\* returns, and the ids over all groups of the returned partition are the
\* roster's ids, each exactly once: nobody is lost, duplicated or invented.
C1_EveryoneExactlyOnce ==
    pc = "done" =>
        /\ result.status = "returns"
        /\ LET flat == Flatten(result.teams)
           IN  /\ Len(flat) = Len(inPlayers)
               /\ \A i \in DOMAIN inPlayers :
                     Cardinality({j \in DOMAIN flat :
                                    flat[j].id = inPlayers[i].id}) = 1
               /\ \A j \in DOMAIN flat :
                     \E i \in DOMAIN inPlayers : flat[j] = inPlayers[i]

\* The gender-stratified strategy has returned several non-empty groups
\* for a roster of the largest size.
C1_Witness ==
    /\ Returned
    /\ strategy = "gender"
    /\ Len(inPlayers) = MaxPlayers
    /\ Len(result.teams) >= 2
    /\ \A t \in DOMAIN result.teams : Len(result.teams[t]) >= 1

\* C2 (as claimed): for a non-empty roster and groupSize >= 1, the group
\* sizes of the returned partition differ by at most one, in every strategy.
C2_SizesDifferByAtMostOne ==
    (Returned /\ Len(inPlayers) > 0) =>
        \A a, b \in GroupSizes : a - b <= 1

\* C3: handicap-balanced partitioning is a snake draft.  With g =
\* ceil(N / groupSize), the player at 0-based position i of the sorted order
\* is in group (i mod g) on even passes floor(i / g) and in group
\* g-1-(i mod g) on odd passes, behind the members placed on earlier passes;
\* ratings 1..6 with groupSize 2 give the groups (1,6), (2,5), (3,4).
C3_SnakeOrder ==
    (pc = "done" /\ strategy \in {"balanced", "balanced001"}) =>
        /\ result.status = "returns"
        /\ LET sorted == locals.order
               n == Len(inPlayers)
               g == CeilDiv(n, inTeamSize)
           IN  /\ Len(sorted) = n
               /\ Len(Flatten(result.teams)) = n
               /\ \A i \in 0..(n - 1) :
                     LET pass == i \div g
                         grp == IF pass % 2 = 0 THEN i % g ELSE g - 1 - (i % g)
                     IN  /\ grp + 1 \in DOMAIN result.teams
                         /\ pass + 1 \in DOMAIN result.teams[grp + 1]
                         /\ result.teams[grp + 1][pass + 1] = sorted[i + 1]
        /\ (inPlayers = ExampleRoster /\ inTeamSize = 2) =>
              [t \in DOMAIN result.teams |->
                  [m \in DOMAIN result.teams[t] |-> result.teams[t][m].handicap]]
                = << <<Some(1), Some(6)>>, <<Some(2), Some(5)>>,
                     <<Some(3), Some(4)>> >>

\* The example roster has been partitioned into groups of two.
C3_Witness ==
    /\ Returned
    /\ strategy = "balanced"
    /\ inPlayers = ExampleRoster
    /\ inTeamSize = 2
    /\ Len(result.teams) = 3

\* C4: uniform-random partitioning cuts the shuffled roster into consecutive
\* chunks: ceil(N / s) groups, group k holding the shuffled positions
\* k*s .. min(N, (k+1)*s)-1 in order; every group but the last has s
\* members, the last has 1..s.
C4_ConsecutiveChunks ==
    (pc = "done" /\ strategy = "random") =>
        /\ result.status = "returns"
        /\ LET shuffled == locals.order
               n == Len(inPlayers)
               s == inTeamSize
               ts == result.teams
           IN  /\ IsPermutationOf(shuffled, inPlayers)
               /\ Len(ts) = CeilDiv(n, s)
               /\ \A k \in 0..(Len(ts) - 1) :
                     /\ ts[k + 1] = SubSeq(shuffled, k * s + 1, Min(n, (k + 1) * s))
                     /\ k + 1 < Len(ts) => Len(ts[k + 1]) = s
                     /\ k + 1 = Len(ts) => Len(ts[k + 1]) \in 1..s

\* A shuffled roster that is not in roster order has been cut into full
\* chunks and a shorter last one.
C4_Witness ==
    /\ Returned
    /\ strategy = "random"
    /\ locals.order # inPlayers
    /\ Len(result.teams) >= 2
    /\ Len(result.teams[Len(result.teams)]) < inTeamSize

\* C5 (as claimed): partitioning an empty roster returns zero groups, in
\* every strategy and for every groupSize >= 1.
C5_EmptyRosterEmptyPartition ==
    (pc = "done" /\ Len(inPlayers) = 0) => result = Returns(<<>>)

\* C8 (as claimed): in the order handicap-balanced partitioning sorts into,
\* no unrated player stands before a rated one, whatever the ratings are.
C8_UnratedSortLast ==
    (pc = "done" /\ strategy \in {"balanced", "balanced001"}) =>
        \A i, j \in DOMAIN locals.order :
            (i < j) => ~(/\ locals.order[i].handicap = None
                         /\ locals.order[j].handicap # None)

\* The 1-based position of the player with this id in the roster.
RosterPos(id) == CHOOSE i \in DOMAIN inPlayers : inPlayers[i].id = id

\* C9: the sort of handicap-balanced partitioning is stable.  The sorted
\* order is a permutation of the roster, ascending by `handicap ?? 999`,
\* and two players with equal ratings, or both unrated, stand in their
\* roster order; so the roster order and groupSize determine the partition.
C9_StableOnTies ==
    (pc = "done" /\ strategy \in {"balanced", "balanced001"}) =>
        LET sorted == locals.order
        IN  /\ IsPermutationOf(sorted, inPlayers)
            /\ \A i, j \in DOMAIN sorted :
                  (i < j) =>
                     /\ HandicapKey(sorted[i]) <= HandicapKey(sorted[j])
                     /\ (sorted[i].handicap = sorted[j].handicap) =>
                           RosterPos(sorted[i].id) < RosterPos(sorted[j].id)

\* A roster with two equally rated players and two unrated players, with a
\* differently rated player between the equal ones, has been partitioned.
C9_Witness ==
    /\ Returned
    /\ strategy \in {"balanced", "balanced001"}
    /\ \E i, j, k \in DOMAIN inPlayers :
          /\ i < k /\ k < j
          /\ inPlayers[i].handicap = inPlayers[j].handicap
          /\ inPlayers[i].handicap # None
          /\ inPlayers[k].handicap # inPlayers[i].handicap
    /\ Len(result.teams) >= 2

\* C10: gender-stratified partitioning makes max(1, ceil(N / groupSize))
\* groups and deals the shuffled buckets M, F, N in that order, each bucket
\* round-robin from group 0: member j of a bucket is in group j mod
\* groupCount, and in every group the M members precede the F members, which
\* precede the N members.
C10_GenderRoundRobin ==
    (pc = "done" /\ strategy = "gender") =>
        /\ result.status = "returns"
        /\ LET g == Max(1, CeilDiv(Len(inPlayers), inTeamSize))
               males == locals.buckets[1]
               females == locals.buckets[2]
               neutral == locals.buckets[3]
           IN  /\ IsPermutationOf(males, FilterGender(inPlayers, "M"))
               /\ IsPermutationOf(females, FilterGender(inPlayers, "F"))
               /\ IsPermutationOf(neutral, FilterGender(inPlayers, "N"))
               /\ locals.numTeams = Fin(g)
               /\ Len(result.teams) = g
               /\ \A k \in 0..(g - 1) :
                     result.teams[k + 1] =
                        EveryGth(males, 0, k, g) \o EveryGth(females, 0, k, g)
                            \o EveryGth(neutral, 0, k, g)

\* A bucket longer than the number of groups has wrapped around, and a
\* second bucket has started again at group 0.
C10_Witness ==
    /\ Returned
    /\ strategy = "gender"
    /\ Len(result.teams) >= 2
    /\ \E b \in 1..3 : Len(locals.buckets[b]) > Len(result.teams)
    /\ Cardinality({b \in 1..3 : Len(locals.buckets[b]) > 0}) >= 2

\* C14: a partition function leaves the array it is given as it was: the
\* same length, the same elements, the same order after the call as before.
C14_RosterNotMutated ==
    [][(pc = "call" /\ pc' = "done") => inPlayers' = inPlayers]_vars

\* makeBalancedTeams has returned for a roster it had to reorder, and
\* makeRandomTeamsWithGender after emptying two non-empty buckets.
C14_Witness ==
    /\ Returned
    /\ \/ /\ strategy = "balanced"
          /\ Len(inPlayers) = MaxPlayers
          /\ locals.order # inPlayers
       \/ /\ strategy = "gender"
          /\ Len(inPlayers) = MaxPlayers
          /\ Len(locals.buckets[1]) > 0 /\ Len(locals.buckets[2]) > 0

\* C16 (as claimed): for every roster, every groupSize >= 1 and every
\* strategy, no group of the returned partition has more than groupSize
\* members.
C16_NoGroupOverSize ==
    Returned =>
        \A t \in DOMAIN result.teams : Len(result.teams[t]) <= inTeamSize

---------------------------------------------------------------------------
(* SpecUI: the handlers of the component, in each of the three revisions.  *)
(* A handler that never returns freezes the page: no handler runs after.   *)
(* The team-size control offers 2, 3 and 4 only, so teamSize stays         *)
(* positive and every partition call of a handler returns.                 *)
(*                                                                         *)
(* The fields of the add-player form (newName, newHandicap, newGender) are *)
(* written only by their onChange setters and read only by addPlayer, so   *)
(* AddPlayer takes their values at the click as its input.                 *)
(*                                                                         *)
(* handleCopyResults writes copyMessage and the clipboard only, and no     *)
(* handler here reads either: it is followed in SpecCopy.                  *)

Responsive == handlerEnd # "hangs"

\* The texts typed into the textarea of revision "App".
InputTexts ==
    { DefaultInput,
      << <<"">> >>,
      << <<"kim">> >>,
      << <<" ">>, <<" kim ", "abc">>, <<"", "7">> >> }

\* The fillings of the add-player form followed: a blank name, a man rated
\* 7, a woman whose handicap is typed "1e1" (a number for part_000, not an
\* integer literal for part_001).
FormInputs ==
    { [name |-> " ", handicap |-> "", gender |-> "M"],
      [name |-> " kim ", handicap |-> "7", gender |-> "M"],
      [name |-> "kim", handicap |-> "1e1", gender |-> "F"] }

\* The values the team-size control hands to setTeamSize(Number(value)): its
\* options 2, 3 and 4.
TeamSizeInputs == {2, 3, 4}

\* The draws of Math.random() followed for a shuffle of n elements: keys
\* ascending, keys descending.
SampleDraws(n) == {[i \in 1..n |-> i], [i \in 1..n |-> n + 1 - i]}

\* onChange of the textarea (App.tsx 220)
SetPlayersInput ==
    /\ Responsive /\ variant = "App"
    /\ \E text \in InputTexts : playersInput' = text
    /\ handlerEnd' = "returns"
    /\ UNCHANGED <<players, teamSize, mode, teams, teamNames,
                   error, copyMessage, issued, variant>>
    /\ UNCHANGED partVars
    /\ UNCHANGED coreVars
    /\ UNCHANGED copyVars

\* onChange of the team-size control (App.tsx 231, part_000 277, part_001 325)
SetTeamSize ==
    /\ Responsive
    /\ \E n \in TeamSizeInputs : teamSize' = n
    /\ handlerEnd' = "returns"
    /\ UNCHANGED <<playersInput, players, mode, teams, teamNames,
                   error, copyMessage, issued, variant>>
    /\ UNCHANGED partVars
    /\ UNCHANGED coreVars
    /\ UNCHANGED copyVars

\* onChange of the mode radio buttons (App.tsx 247 and 256)
SetMode ==
    /\ Responsive
    /\ \E m \in {"random", "balanced"} : mode' = m
    /\ handlerEnd' = "returns"
    /\ UNCHANGED <<playersInput, players, teamSize, teams,
                   teamNames, error, copyMessage, issued, variant>>
    /\ UNCHANGED partVars
    /\ UNCHANGED coreVars
    /\ UNCHANGED copyVars

\* newHandicap.trim() !== "" && !Number.isNaN(Number(newHandicap))
\*     ? Number(newHandicap) : undefined                  (part_000 116-119)
ParseHandicap000(typed) ==
    IF Trim(typed) # "" /\ IsNumeral(Trim(typed))
    THEN Some(NumberOf(Trim(typed))) ELSE None

\* trimmedHandicap !== "" && /^-?\d+$/.test(trimmedHandicap)
\*     ? Number(trimmedHandicap) : undefined              (part_001 133-137)
ParseHandicap001(typed) ==
    IF Trim(typed) # "" /\ IsIntegerLiteral(Trim(typed))
    THEN Some(NumberOf(Trim(typed))) ELSE None

\* A faulty id: one more than the number of listed players.
NextIdFromLength(ps) == Len(ps) + 1

\* players.length ? players[players.length - 1].id + 1 : 1
NextId(ps) == IF Len(ps) > 0 THEN ps[Len(ps)].id + 1 ELSE 1

\* addPlayer (part_000 109-131, part_001 126-150).  The id counter is capped
\* at MaxId.
AddPlayer ==
    /\ Responsive /\ variant \in {"part000", "part001"}
    /\ \E form \in FormInputs :
          IF Trim(form.name) = ""
          THEN /\ error' = Some("enter a name")
               /\ UNCHANGED <<players, issued>>
          ELSE /\ NextId(players) <= MaxId
               /\ players' = Append(players,
                     Player(NextId(players), Trim(form.name),
                            IF variant = "part000"
                            THEN ParseHandicap000(form.handicap)
                            ELSE ParseHandicap001(form.handicap),
                            IF variant = "part000"
                            THEN NoGender ELSE form.gender))
               /\ issued' = issued \cup {NextId(players)}
               /\ error' = Null
    /\ handlerEnd' = "returns"
    /\ UNCHANGED <<playersInput, teamSize, mode, teams, teamNames,
                   copyMessage, variant>>
    /\ UNCHANGED partVars
    /\ UNCHANGED coreVars
    /\ UNCHANGED copyVars

\* players.filter((p) => p.id !== id)
RECURSIVE FilterOutId(_, _)
FilterOutId(ps, id) ==
    IF ps = <<>> THEN <<>>
    ELSE IF Head(ps).id # id THEN <<Head(ps)>> \o FilterOutId(Tail(ps), id)
         ELSE FilterOutId(Tail(ps), id)

\* removePlayer (part_000 134-136, part_001 152-154), from the delete button
\* of a listed player.
RemovePlayer ==
    /\ Responsive /\ variant \in {"part000", "part001"}
    /\ \E i \in DOMAIN players : players' = FilterOutId(players, players[i].id)
    /\ handlerEnd' = "returns"
    /\ UNCHANGED <<playersInput, teamSize, mode, teams, teamNames,
                   error, copyMessage, issued, variant>>
    /\ UNCHANGED partVars
    /\ UNCHANGED coreVars
    /\ UNCHANGED copyVars

\* What handleMakeTeams does once result is computed: a returned partition
\* is displayed with fresh names; setError(null) and setCopyMessage(null)
\* were called before the partition function, so they also take effect when
\* it throws; when it never returns nothing is rendered again.
ShowResult(res, rNames) ==
    /\ handlerEnd' = res.status
    /\ IF res.status = "returns"
       THEN /\ error' = Null
            /\ copyMessage' = Null
            /\ teams' = Some(res.teams)
            /\ teamNames' = generateTeamNames(Len(res.teams), rNames)
       ELSE IF res.status = "throws"
       THEN /\ error' = Null
            /\ copyMessage' = Null
            /\ UNCHANGED <<teams, teamNames>>
       ELSE UNCHANGED <<error, copyMessage, teams, teamNames>>

\* The body of handleMakeTeams in App.tsx (130-153) and part_000 (140-163),
\* for the roster ps.
MakeTeamsChecked(ps) ==
    IF Len(ps) = 0
    THEN /\ error' = Some(IF variant = "App" THEN "enter players"
                          ELSE "add at least one player")
         /\ teams' = Null
         /\ teamNames' = <<>>
         /\ handlerEnd' = "returns"
         /\ UNCHANGED copyMessage
    ELSE IF teamSize <= 0
    THEN /\ error' = Some("team size must be 1 or more")
         /\ teams' = Null
         /\ teamNames' = <<>>
         /\ handlerEnd' = "returns"
         /\ UNCHANGED copyMessage
    ELSE \E r \in SampleDraws(Len(ps)),
            rNames \in SampleDraws(Len(TEAM_NAME_PRESETS)) :
            ShowResult(IF mode = "balanced"
                       THEN makeBalancedTeams(ps, teamSize)
                       ELSE makeRandomTeams(ps, teamSize, r),
                       rNames)

\* handleMakeTeams of App.tsx (128-154)
HandleMakeTeamsApp ==
    /\ Responsive /\ variant = "App"
    /\ MakeTeamsChecked(parsePlayers(playersInput))
    /\ UNCHANGED <<playersInput, players, teamSize, mode, issued, variant>>
    /\ UNCHANGED partVars
    /\ UNCHANGED coreVars
    /\ UNCHANGED copyVars

\* handleMakeTeams of part_000 (139-164)
HandleMakeTeams000 ==
    /\ Responsive /\ variant = "part000"
    /\ MakeTeamsChecked(players)
    /\ UNCHANGED <<playersInput, players, teamSize, mode, issued, variant>>
    /\ UNCHANGED partVars
    /\ UNCHANGED coreVars
    /\ UNCHANGED copyVars

\* handleMakeTeams of part_001 (156-175): no test of teamSize, and the empty
\* roster only sets the error.
HandleMakeTeams001 ==
    /\ Responsive /\ variant = "part001"
    /\ IF Len(players) = 0
       THEN /\ error' = Some("add at least one player")
            /\ handlerEnd' = "returns"
            /\ UNCHANGED <<teams, teamNames, copyMessage>>
       ELSE \E rM \in SampleDraws(Len(FilterGender(players, "M"))),
               rF \in SampleDraws(Len(FilterGender(players, "F"))),
               rN \in SampleDraws(Len(FilterGender(players, "N"))),
               rNames \in SampleDraws(Len(TEAM_NAME_PRESETS)) :
               ShowResult(IF mode = "balanced"
                          THEN makeBalancedTeams001(players, teamSize)
                          ELSE makeRandomTeamsWithGender(players, teamSize,
                                                         rM, rF, rN),
                          rNames)
    /\ UNCHANGED <<playersInput, players, teamSize, mode, issued, variant>>
    /\ UNCHANGED partVars
    /\ UNCHANGED coreVars
    /\ UNCHANGED copyVars

\* handleReset (App.tsx 156-161, part_000 167-172, part_001 177-181), from
\* the reset button, which is rendered while teams is not null.  part_001
\* leaves the error.
HandleReset ==
    /\ Responsive /\ teams # Null
    /\ teams' = Null
    /\ teamNames' = <<>>
    /\ copyMessage' = Null
    /\ error' = IF variant = "part001" THEN error ELSE Null
    /\ handlerEnd' = "returns"
    /\ UNCHANGED <<playersInput, players, teamSize, mode, issued, variant>>
    /\ UNCHANGED partVars
    /\ UNCHANGED coreVars
    /\ UNCHANGED copyVars

UIInitAll ==
    /\ \E v \in Variants : UIInit(v)
    /\ strategy = "none"
    /\ inPlayers = <<>>
    /\ inTeamSize = 0
    /\ pc = "idle"
    /\ locals = NoLocals
    /\ result = Returns(<<>>)
    /\ CoreIdle
    /\ CopyIdle

UINext ==
    \/ SetPlayersInput
    \/ SetTeamSize
    \/ SetMode
    \/ AddPlayer
    \/ RemovePlayer
    \/ HandleMakeTeamsApp
    \/ HandleMakeTeams000
    \/ HandleMakeTeams001
    \/ HandleReset

SpecUI == UIInitAll /\ [][UINext]_vars

---------------------------------------------------------------------------
(* Properties of the handlers (SpecUI).                                    *)

\* C6 (as claimed): an id is never reused.  The id addPlayer gives the
\* player it appends differs from every id it has assigned before, also
\* from the ids of players removed since.
C6_IdNeverReused ==
    [][(Len(players') = Len(players) + 1) =>
          players'[Len(players')].id \notin issued]_vars

\* A step of handleMakeTeams, in any revision.
MakeTeamsStep ==
    HandleMakeTeamsApp \/ HandleMakeTeams000 \/ HandleMakeTeams001

\* C17 (as claimed): in every revision, handleMakeTeams with an empty
\* roster sets an error and leaves no partition displayed (teams null,
\* teamNames empty), also when an earlier partition was on display.
C17_EmptyRosterClearsDisplay ==
    [][(MakeTeamsStep
          /\ Len(IF variant = "App" THEN parsePlayers(playersInput)
                 ELSE players) = 0) =>
          /\ error' # Null
          /\ teams' = Null
          /\ teamNames' = <<>>]_vars

\* The ids of a roster are pairwise distinct.
IdsDistinct(ps) ==
    \A i, j \in DOMAIN ps : i # j => ps[i].id # ps[j].id

\* C13: in every reachable state the roster a partition function would be
\* handed has pairwise distinct ids: the list kept by addPlayer and
\* removePlayer, and the list parsePlayers makes of the typed text.
C13_RosterIdsDistinct ==
    /\ IdsDistinct(players)
    /\ IdsDistinct(parsePlayers(playersInput))

\* addPlayer has brought the list to two players, after the delete button
\* or not.
C13_Witness ==
    /\ variant = "part001"
    /\ Len(players) = 2
    /\ players[1].gender # players[2].gender

---------------------------------------------------------------------------
(* SpecCore: one call of generateTeamNames or of calcAverageHandicap on a  *)
(* bounded input.                                                          *)

\* Largest count handed to generateTeamNames in SpecCore.
MaxCount == 12

\* The draws of Math.random() followed for the shuffle of the presets: keys
\* ascending from each position round the pool, keys descending, and keys
\* all equal.
NameDraws ==
    LET n == Len(TEAM_NAME_PRESETS)
    IN  {[i \in 1..n |-> (i + k) % n] : k \in 0..(n - 1)}
          \cup {[i \in 1..n |-> n - i], [i \in 1..n |-> 0]}

\* The part of the state SpecCore leaves alone.
NoPartitionCall ==
    /\ strategy = "none"
    /\ inPlayers = <<>>
    /\ inTeamSize = 0
    /\ pc = "idle"
    /\ locals = NoLocals
    /\ result = Returns(<<>>)

\* The handicaps of the members of a group handed to calcAverageHandicap:
\* absent, zero, negative and positive.
GroupHandicaps == {None, Some(0), Some(-3), Some(10), Some(20)}

CoreInit ==
    /\ \/ /\ fn = "generateTeamNames"
          /\ \E count \in 0..MaxCount, r \in NameDraws :
                arg = [count |-> count, r |-> r]
       \/ /\ fn = "calcAverageHandicap"
          /\ \E n \in 0..MaxPlayers :
                \E team \in RostersOf(n, GroupHandicaps, {NoGender}) :
                   arg = [team |-> team]
    /\ ret = None
    /\ NoPartitionCall
    /\ UIInit("App")
    /\ CopyIdle

CallGenerateTeamNames ==
    /\ fn = "generateTeamNames" /\ ret = None
    /\ ret' = Some(generateTeamNames(arg.count, arg.r))
    /\ UNCHANGED <<fn, arg>>
    /\ UNCHANGED partVars
    /\ UNCHANGED uiVars
    /\ UNCHANGED copyVars

\* The value returned is wrapped once more in ret: Some(None) is a returned
\* null.
CallCalcAverageHandicap ==
    /\ fn = "calcAverageHandicap" /\ ret = None
    /\ ret' = Some(calcAverageHandicap(arg.team))
    /\ UNCHANGED <<fn, arg>>
    /\ UNCHANGED partVars
    /\ UNCHANGED uiVars
    /\ UNCHANGED copyVars

CoreNext ==
    \/ CallGenerateTeamNames
    \/ CallCalcAverageHandicap

SpecCore == CoreInit /\ [][CoreNext]_vars

---------------------------------------------------------------------------
(* Properties of generateTeamNames and calcAverageHandicap (SpecCore).     *)

PoolSize == Len(TEAM_NAME_PRESETS)

InPool(name) == \E k \in DOMAIN TEAM_NAME_PRESETS : TEAM_NAME_PRESETS[k] = name

\* C11: generateTeamNames(count) returns exactly count labels; the first
\* min(count, 10) are pairwise distinct names of the preset pool, and the
\* label at every 1-based position i > 10 is the fallback label carrying
\* the number i.
C11_NamesThenFallbacks ==
    (fn = "generateTeamNames" /\ ret # None) =>
        LET names == ret[1]
        IN  /\ Len(names) = arg.count
            /\ \A i \in DOMAIN names :
                  IF i <= PoolSize
                  THEN /\ InPool(names[i])
                       /\ \A j \in DOMAIN names : j < i => names[j] # names[i]
                  ELSE names[i] = "room/team " \o ToString(i)

\* generateTeamNames(12) has returned after a shuffle that moved the pool.
C11_Witness ==
    /\ fn = "generateTeamNames" /\ ret # None
    /\ arg.count = 12
    /\ ret[1][1] # TEAM_NAME_PRESETS[1]
    /\ ret[1][11] = "room/team 11"
    /\ ret[1][12] = "room/team 12"

\* The members of a group that have a rating, and the sum of their ratings.
Rated(team) == {i \in DOMAIN team : team[i].handicap # None}

RECURSIVE SumOver(_, _)
SumOver(team, idx) ==
    IF idx = {} THEN 0
    ELSE LET i == CHOOSE i \in idx : TRUE
         IN  team[i].handicap[1] + SumOver(team, idx \ {i})

\* C12: calcAverageHandicap returns null exactly when no member of the
\* group has a rating; otherwise the value returned, times the number of
\* rated members, is the sum of the ratings present: unrated members change
\* neither sum nor divisor, a rating of 0 counts, nothing is rounded.
C12_AverageOfPresentRatings ==
    (fn = "calcAverageHandicap" /\ ret # None) =>
        LET team == arg.team
            avg == ret[1]
        IN  /\ (avg = None) <=> (Rated(team) = {})
            /\ avg # None =>
                  /\ avg[1].den > 0
                  /\ avg[1].num * Cardinality(Rated(team))
                        = SumOver(team, Rated(team)) * avg[1].den

\* The ratings 10, 20 and none have given 15.
C12_Witness ==
    /\ fn = "calcAverageHandicap" /\ ret # None
    /\ Len(arg.team) = 3
    /\ arg.team[1].handicap = Some(10)
    /\ arg.team[2].handicap = Some(20)
    /\ arg.team[3].handicap = None
    /\ ret[1] = Some([num |-> 15, den |-> 1])

---------------------------------------------------------------------------
(* SpecCopy: handleCopyResults, from the copy button under a displayed     *)
(* partition, while the roster is edited.  The handler runs up to its      *)
(* await; the promise of writeText settles later, the message is set then, *)
(* and App.tsx and part_000 clear it five seconds after.                   *)

\* Largest number of presses of the copy button followed.
MaxCopies == 2

\* The roster of the caller at this moment.
CurrentRoster ==
    IF variant = "App" THEN parsePlayers(playersInput) ELSE players

\* handleCopyResults up to `await navigator.clipboard.writeText(text)`
\* (App.tsx 163-189, part_000 175-201, part_001 183-213).  The button is
\* rendered while teams is not null.
HandleCopyResults ==
    /\ Responsive /\ teams # Null
    /\ Len(written) < MaxCopies
    /\ IF variant # "part001" /\ Len(teams[1]) = 0
       THEN UNCHANGED copyVars
       ELSE LET lines == ReportLines(variant, teams, teamNames)
                text == ReportText(variant, lines)
            IN  /\ inFlight' = Append(inFlight, text)
                /\ written' = Append(written,
                                     [teams |-> teams,
                                      teamNames |-> teamNames,
                                      lines |-> lines,
                                      text |-> text])
                /\ UNCHANGED <<clipboard, timers>>
    /\ handlerEnd' = "returns"
    /\ UNCHANGED <<playersInput, players, teamSize, mode, teams, teamNames,
                   error, copyMessage, issued, variant>>
    /\ UNCHANGED partVars
    /\ UNCHANGED coreVars

\* setTimeout(() => setCopyMessage(null), 5000), which part_001 lacks
TimersAfterSettle == IF variant = "part001" THEN timers ELSE timers + 1

RemoveAt(seq, i) == SubSeq(seq, 1, i - 1) \o SubSeq(seq, i + 1, Len(seq))

\* The promise of a writeText is fulfilled: the text is on the clipboard
\* and the handler resumes after the await (App.tsx 190 and 195).
WriteTextResolves ==
    /\ \E i \in DOMAIN inFlight :
          /\ clipboard' = Some(inFlight[i])
          /\ inFlight' = RemoveAt(inFlight, i)
    /\ copyMessage' = Some("copied")
    /\ timers' = TimersAfterSettle
    /\ UNCHANGED <<playersInput, players, teamSize, mode, teams, teamNames,
                   error, handlerEnd, issued, variant, written>>
    /\ UNCHANGED partVars
    /\ UNCHANGED coreVars

\* The promise is rejected, or writeText throws: the handler resumes in the
\* catch block (App.tsx 191-195).
WriteTextRejects ==
    /\ \E i \in DOMAIN inFlight : inFlight' = RemoveAt(inFlight, i)
    /\ copyMessage' = Some("copy not supported")
    /\ timers' = TimersAfterSettle
    /\ UNCHANGED <<playersInput, players, teamSize, mode, teams, teamNames,
                   error, handlerEnd, issued, variant, written, clipboard>>
    /\ UNCHANGED partVars
    /\ UNCHANGED coreVars

\* A five-second timer fires: () => setCopyMessage(null) (App.tsx 195)
CopyMessageTimeout ==
    /\ timers > 0
    /\ timers' = timers - 1
    /\ copyMessage' = Null
    /\ UNCHANGED <<playersInput, players, teamSize, mode, teams, teamNames,
                   error, handlerEnd, issued, variant, written, clipboard,
                   inFlight>>
    /\ UNCHANGED partVars
    /\ UNCHANGED coreVars

\* The handicaps of the rosters followed, by position: rated with one high
\* rating in four, nobody rated, rated and unrated mixed.
HandicapPatterns ==
    { [i \in 1..MaxPlayers |-> IF i % 4 = 0 THEN Some(10) ELSE Some(-3)],
      [i \in 1..MaxPlayers |-> None],
      [i \in 1..MaxPlayers |-> <<Some(10), None, Some(0)>>[((i - 1) % 3) + 1]] }

GenderPattern == [i \in 1..MaxPlayers |-> <<"M", "F", "N", "F">>[((i - 1) % 4) + 1]]

\* The rosters addPlayer has built before the partition was made.
CopyRosters(v) ==
    {[i \in 1..n |-> Player(i, Names[i], h[i],
                            IF v = "part001" THEN GenderPattern[i]
                            ELSE NoGender)] :
        n \in 1..MaxPlayers, h \in HandicapPatterns}

\* The partition handleMakeTeams computes in revision v for roster ps.
PartitionOf(v, ps, size, m, r) ==
    IF m = "balanced"
    THEN (IF v = "part001" THEN makeBalancedTeams001(ps, size)
          ELSE makeBalancedTeams(ps, size))
    ELSE IF v = "part001"
    THEN makeRandomTeamsWithGender(ps, size,
            [i \in 1..Len(FilterGender(ps, "M")) |-> r[i]],
            [i \in 1..Len(FilterGender(ps, "F")) |-> r[i]],
            [i \in 1..Len(FilterGender(ps, "N")) |-> r[i]])
    ELSE makeRandomTeams(ps, size, r)

\* The component after one handleMakeTeams that displayed a partition.
CopyInit ==
    /\ \E v \in Variants, size \in TeamSizeInputs, m \in {"random", "balanced"} :
          /\ variant = v
          /\ teamSize = size
          /\ mode = m
          /\ IF v = "App"
             THEN /\ playersInput \in {t \in InputTexts : Len(parsePlayers(t)) > 0}
                  /\ players = <<>>
                  /\ issued = {}
             ELSE /\ playersInput = <<>>
                  /\ players \in CopyRosters(v)
                  /\ issued = 1..Len(players)
          /\ \E r \in SampleDraws(Len(CurrentRoster)) :
                /\ teams = Some(PartitionOf(v, CurrentRoster, size, m, r).teams)
                /\ teamNames =
                      generateTeamNames(Len(teams[1]),
                          [i \in 1..Len(TEAM_NAME_PRESETS) |->
                              Len(TEAM_NAME_PRESETS) - i])
    /\ error = Null
    /\ copyMessage = Null
    /\ handlerEnd = "returns"
    /\ NoPartitionCall
    /\ CoreIdle
    /\ CopyIdle

CopyNext ==
    \/ HandleCopyResults
    \/ WriteTextResolves
    \/ WriteTextRejects
    \/ CopyMessageTimeout
    \/ RemovePlayer
    \/ SetPlayersInput

SpecCopy == CopyInit /\ [][CopyNext]_vars

---------------------------------------------------------------------------
(* Properties of handleCopyResults (SpecCopy).                             *)

\* The kinds of the lines of a report of n groups: title, summary, blank,
\* then header, members, blank for each group.
KindAt(i) ==
    IF i = 1 THEN "title" ELSE IF i = 2 THEN "summary"
    ELSE <<"blank", "header", "members">>[(i % 3) + 1]

\* C15: the text handleCopyResults builds depends on the displayed
\* partition and its names only: any two presses under the same teams and
\* teamNames build the same text, whatever happened to the roster between
\* them.  The report has three lines and then, for each group in partition
\* order, a header line with the group's name, a member line with the
\* group's members in order, and a blank line.
C15_ReportOfDisplayOnly ==
    /\ \A a, b \in DOMAIN written :
          (written[a].teams = written[b].teams
             /\ written[a].teamNames = written[b].teamNames)
          => written[a].text = written[b].text
    /\ \A a \in DOMAIN written :
          LET w == written[a]
              ts == w.teams[1]
          IN  /\ Len(w.lines) = 3 + 3 * Len(ts)
              /\ \A i \in DOMAIN w.lines : w.lines[i].kind = KindAt(i)
              /\ w.lines[2].total = Len(Flatten(ts))
              /\ w.lines[2].count = Len(ts)
              /\ \A k \in DOMAIN ts :
                    /\ w.lines[3 * k + 1].name = w.teamNames[k]
                    /\ Len(w.lines[3 * k + 2].members) = Len(ts[k])
                    /\ \A j \in DOMAIN ts[k] :
                          w.lines[3 * k + 2].members[j].name = ts[k][j].name

\* The copy button was pressed twice under the same partition of several
\* groups, one of them with an average, players of it have left the
\* roster, and the first text is on the clipboard.
C15_Witness ==
    /\ Len(written) = 2
    /\ written[1].teams = written[2].teams
    /\ Len(CurrentRoster) < Len(Flatten(teams[1]))
    /\ Len(written[1].teams[1]) >= 2
    /\ \E i \in DOMAIN written[1].lines : written[1].lines[i].avg # None
    /\ clipboard = Some(written[1].text)

===========================================================================
